---- MODULE Spec2Model ----
(***************************************************************************)
(* OnepasswordClient (src/src/Client.ts): login, getEntries, getEntry,     *)
(* getEntryCredentials and addEntry of one client instance, with every     *)
(* `await` of the source an interleaving point between invocations.        *)
(* The collaborators Cipher, Onepassword, getKey and base64safe are not    *)
(* part of Client.ts; their behaviour is taken from the specification.     *)
(***************************************************************************)
EXTENDS Integers, Sequences, FiniteSets, TLC

\* ---------------------------------------------------------------- bounds
MaxLogins == 2
MaxReads == 2
\* invocations started in all, and invocations in flight at one time
MaxOps == 3
MaxActive == 2

Logins == 1..MaxLogins
Readers == 1..MaxReads

\* ---------------------------------------------------------------- values
Null == [null |-> TRUE]
Undefined == [undefined |-> TRUE]
NoSession == [id |-> 0, key |-> Null]
NoAuth == [owner |-> 0, pwOk |-> FALSE, bigB |-> "absent"]
BigBValues == {"absent", "zero", "valid"}
KeySetChoices == {{"k1", "k2"}, {"k1"}}
DecipherError == [error |-> "EnvelopeDecryptError"]

VARIABLES cipherKey, cipherAuth, cipherSession, opSession, masterKeys,
          login, reader, srvVerified, vkDecrypts

vars == <<cipherKey, cipherAuth, cipherSession, opSession, masterKeys,
          login, reader, srvVerified, vkDecrypts>>

clientState == <<cipherKey, cipherAuth, cipherSession, opSession, masterKeys>>

\* ------------------------------------------------------------ the account
\* uuids are sequences of characters, so that the entry id can be built and
\* split as the code does.
Vaults ==
  << [uuid |-> <<"a">>,
      access |-> << [encVaultKey |-> [vault |-> <<"a">>, kid |-> "k1"], encryptedBy |-> "k1"] >>],
     [uuid |-> <<"b">>,
      access |-> << [encVaultKey |-> [vault |-> <<"b">>, kid |-> "k2"], encryptedBy |-> "k2"],
                    [encVaultKey |-> [vault |-> <<"b">>, kid |-> "k1"], encryptedBy |-> "k1"] >>] >>

Items ==
  << << [uuid |-> <<"x">>, trashed |-> "N"], [uuid |-> <<"y">>, trashed |-> "Y"],
        [uuid |-> <<"w", ":", "q">>, trashed |-> "N"] >>,
     << [uuid |-> <<"z">>, trashed |-> "N"] >> >>

VaultIdx == 1..Len(Vaults)
ItemRefs == UNION {{<<v, n>> : n \in 1..Len(Items[v])} : v \in VaultIdx}
ItemUuids == {Items[ref[1]][ref[2]].uuid : ref \in ItemRefs}

\* ------------------------------------------------------- collaborators
\* `bigB ? ... : null` (line 45): the values of the exchange are strings,
\* so only an absent (undefined / empty) bigB is falsy; a zero value "0"
\* is a non-empty string and is truthy.
Truthy(bigB) == bigB # "absent"

\* Cipher.getSessionKey(sessionID): the key derived from the auth
\* parameters held by the cipher and the session id.
getSessionKey(sessionID, auth) ==
  [sid |-> sessionID, owner |-> auth.owner, pwOk |-> auth.pwOk, bigB |-> auth.bigB]

\* The key the server derives for session sid: right password, the
\* ephemeral values of the invocation that ran the exchange of sid.
ServerKey(sid) == [sid |-> sid, owner |-> sid, pwOk |-> TRUE, bigB |-> "valid"]

\* Cipher.clientVerifyHash / serverVerifyHash: hashes over the cipher's
\* session.
clientVerifyHash(session) == [sid |-> session.id, key |-> session.key]
serverVerifyHash(clientHash) == [server |-> clientHash]

\* Onepassword.verifySessionKey: the server confirms a hash over the key
\* it derived itself for that session, and nothing else.
ServerConfirms(clientHash) == clientHash.key = ServerKey(clientHash.sid)

\* Onepassword.getKeySets under session `session`: the account's key set,
\* each blob encrypted under the session key; refused for a session the
\* server has not verified.
getKeySets(session, verified, kids) ==
  IF session.id \in verified /\ session.key # Null
  THEN [key |-> session.key, kids |-> kids]
  ELSE Undefined

\* Cipher.getMasterPrivateKeys(encKeySets): authenticated decryption under
\* the cipher's session key; Undefined stands for KeyUnwrapError.
getMasterPrivateKeys(encKeySets, session, by) ==
  IF session.key # Null /\ encKeySets.key = session.key
  THEN [by |-> by, sess |-> session.id, kids |-> encKeySets.kids]
  ELSE Undefined

\* Onepassword.getVaults / getItemsOverview / getItemDetail are answered
\* only under a session the server has verified.
SessionLive(session, verified) == session.id \in verified /\ session.key # Null

\* The symmetric key of a vault, and its transport form (URL-safe base64).
VaultKey(vaultUuid) == [vk |-> vaultUuid]
B64Encode(key) == [b64 |-> key]
B64Decode(str) == IF "b64" \in DOMAIN str THEN str.b64 ELSE DecipherError

\* Onepassword.getItemsOverview(uuid): the item overviews of vault number v,
\* each envelope encrypted under the vault key; the envelopes of the items
\* in `bad` arrive corrupted.
getItemsOverview(v, bad) ==
  [n \in 1..Len(Items[v]) |->
     [uuid |-> Items[v][n].uuid, trashed |-> Items[v][n].trashed,
      encOverview |-> [key |-> VaultKey(Vaults[v].uuid), corrupt |-> Items[v][n].uuid \in bad,
                       plain |-> [title |-> Items[v][n].uuid, vault |-> Vaults[v].uuid]]]]

\* Onepassword.getItemDetail(uuid, vaultID): the detail envelope of the item,
\* trashed or not; Undefined when the vault holds no such item.
getItemDetail(uuid, vaultID, bad) ==
  IF \E v \in 1..Len(Vaults) : Vaults[v].uuid = vaultID /\ \E n \in 1..Len(Items[v]) : Items[v][n].uuid = uuid
  THEN [encDetails |-> [key |-> VaultKey(vaultID), corrupt |-> bad,
                        plain |-> [item |-> uuid, vault |-> vaultID]]]
  ELSE Undefined

\* Cipher.decipher(envelope, key): integrity-checked decryption; a wrong or
\* missing key or a corrupted envelope is an EnvelopeDecryptError.
decipher(envelope, key) ==
  IF "kid" \in DOMAIN envelope
  THEN IF key # Undefined /\ key.rsa = envelope.kid
       THEN [k |-> B64Encode(VaultKey(envelope.vault))]
       ELSE DecipherError
  ELSE IF key = envelope.key /\ ~envelope.corrupt THEN envelope.plain ELSE DecipherError


\* ---------------------------------------------------------------- login
IdleLogin == [pc |-> "idle", pwOk |-> FALSE, sid |-> 0, bigB |-> "absent",
              authAtCall |-> NoAuth, hash |-> Null, enc |-> Undefined,
              failedAt |-> "", mkAtStart |-> 0]

\* last is the vault whose overview fetch was the latest to return (0: none)
IdleReader == [kind |-> "", pc |-> "idle", id |-> <<>>, sub |-> <<>>, last |-> 0,
               k |-> Null, keyArg |-> Null, kid |-> "", result |-> <<>>, err |-> ""]

MkOwner(mk) == IF mk = Undefined THEN 0 ELSE mk.by

\* a settled login: its locals are gone; the step that threw is kept
Settled(l, pc, step) == [IdleLogin EXCEPT !.pc = pc, !.failedAt = step,
                                         !.sid = l.sid, !.bigB = l.bigB, !.mkAtStart = l.mkAtStart]
Fail(l, step) == Settled(l, "failed", step)

LoginActive(i) == login[i].pc \notin {"idle", "done", "failed"}
ReaderActive(r) == reader[r].pc \notin {"idle", "done", "failed"}
Started == Cardinality({i \in Logins : login[i].pc # "idle"})
           + Cardinality({r \in Readers : reader[r].pc # "idle"})
Active == Cardinality({i \in Logins : LoginActive(i)})
          + Cardinality({r \in Readers : ReaderActive(r)})
MayStart == Started < MaxOps /\ Active < MaxActive

Init ==
  /\ cipherKey = 0
  /\ cipherAuth = NoAuth
  /\ cipherSession = NoSession
  /\ opSession = NoSession
  /\ masterKeys = Undefined
  /\ login = [i \in Logins |-> IdleLogin]
  /\ reader = [r \in Readers |-> IdleReader]
  /\ srvVerified = {}
  /\ vkDecrypts = [v \in VaultIdx |-> 0]

\* lines 39-41: getKey, cipher.setKey, call of onepassword.auth
LoginStart(i, pwOk, secretOk) ==
  /\ login[i].pc = "idle"
  /\ \A j \in Logins : j < i => login[j].pc # "idle"
  /\ MayStart
  /\ IF secretOk
     THEN /\ cipherKey' = i
          /\ login' = [login EXCEPT ![i] = [@ EXCEPT !.pc = "auth", !.pwOk = pwOk,
                                              !.mkAtStart = MkOwner(masterKeys)]]
     ELSE /\ login' = [login EXCEPT ![i] = Fail([@ EXCEPT !.mkAtStart = MkOwner(masterKeys)], "getKey")]
          /\ UNCHANGED cipherKey
  /\ UNCHANGED <<cipherAuth, cipherSession, opSession, masterKeys, srvVerified, reader, vkDecrypts>>

\* line 41 resumes, line 42: call of cipher.generateSRPKeys
AuthReturn(i, ok) ==
  /\ login[i].pc = "auth"
  /\ login' = [login EXCEPT ![i] = IF ok THEN [@ EXCEPT !.pc = "genSRP", !.sid = i]
                                         ELSE Fail(@, "auth")]
  /\ UNCHANGED <<clientState, srvVerified, reader, vkDecrypts>>

\* line 42 resumes, line 43: call of onepassword.SRPExchange
SRPKeysReturn(i) ==
  /\ login[i].pc = "genSRP"
  /\ login' = [login EXCEPT ![i].pc = "exchange"]
  /\ UNCHANGED <<clientState, srvVerified, reader, vkDecrypts>>

\* The step taken when verifySessionKey settles (line 50): a rejection
\* leaves login, a confirmation goes on to getKeySets.
VerifyNextAlways(accepted) == "keysets"
VerifyNext(accepted) == IF accepted THEN "keysets" ELSE "failed"

\* lines 46-50: both sessions are installed, the hashes computed over the
\* cipher's session, verifySessionKey is called.
InstallAndVerify(i, l, sessionKey) ==
  LET session == [id |-> l.sid, key |-> sessionKey] IN
  /\ opSession' = session
  /\ cipherSession' = session
  /\ login' = [login EXCEPT ![i] = [l EXCEPT !.pc = "verify",
                                        !.hash = serverVerifyHash(clientVerifyHash(session))]]

\* line 43 resumes, lines 44-45: setAuth, then getSessionKey is called if
\* bigB is truthy, else lines 46-50 run with a null key.
ExchangeReturn(i, ok, bigB) ==
  /\ login[i].pc = "exchange"
  /\ IF ok
     THEN LET auth == [owner |-> i, pwOk |-> login[i].pwOk, bigB |-> bigB]
              l == [login[i] EXCEPT !.bigB = bigB] IN
          /\ cipherAuth' = auth
          /\ IF Truthy(bigB)
             THEN /\ login' = [login EXCEPT ![i] = [l EXCEPT !.pc = "sessionKey", !.authAtCall = auth]]
                  /\ UNCHANGED <<cipherSession, opSession>>
             ELSE InstallAndVerify(i, l, Null)
     ELSE /\ login' = [login EXCEPT ![i] = Fail(@, "SRPExchange")]
          /\ UNCHANGED <<cipherAuth, cipherSession, opSession>>
  /\ UNCHANGED <<cipherKey, masterKeys, srvVerified, reader, vkDecrypts>>

\* line 45 resumes with the key derived from the auth parameters that
\* line 44 handed to the cipher, lines 46-50.
SessionKeyReturn(i, ok) ==
  /\ login[i].pc = "sessionKey"
  /\ IF ok
     THEN InstallAndVerify(i, login[i], getSessionKey(login[i].sid, login[i].authAtCall))
     ELSE /\ login' = [login EXCEPT ![i] = Fail(@, "getSessionKey")]
          /\ UNCHANGED <<cipherSession, opSession>>
  /\ UNCHANGED <<cipherKey, cipherAuth, masterKeys, srvVerified, reader, vkDecrypts>>

\* line 50 resumes, line 51: call of onepassword.getKeySets
VerifyReturn(i, ok, kids) ==
  /\ login[i].pc = "verify"
  /\ LET accepted == ServerConfirms(login[i].hash.server)
         conf == ok /\ accepted
         verified == IF accepted THEN srvVerified \cup {login[i].hash.server.sid}
                     ELSE srvVerified
     IN /\ srvVerified' = verified
        /\ login' = [login EXCEPT ![i] =
             IF VerifyNext(conf) = "failed" THEN Fail(@, "verifySessionKey")
             ELSE [@ EXCEPT !.pc = VerifyNext(conf), !.hash = Null,
                            !.enc = getKeySets(opSession, verified, kids)]]
  /\ UNCHANGED <<clientState, reader, vkDecrypts>>

\* line 52, `this.masterKeys = this.cipher.getMasterPrivateKeys(...)`: when
\* the call throws (no value, Undefined here) the assignment does not take
\* place and the field keeps its value
AssignedAnyway(old, mk) == mk
Assigned(old, mk) == IF mk = Undefined THEN old ELSE mk

\* line 51 resumes, line 52: masterKeys = cipher.getMasterPrivateKeys(...)
KeySetsReturn(i, ok) ==
  /\ login[i].pc = "keysets"
  /\ IF ok /\ login[i].enc # Undefined
     THEN LET mk == getMasterPrivateKeys(login[i].enc, cipherSession, i) IN
          /\ masterKeys' = Assigned(masterKeys, mk)
          /\ IF mk # Undefined
             THEN /\ vkDecrypts' = [v \in VaultIdx |-> 0]
                  /\ login' = [login EXCEPT ![i] = Settled(@, "done", "")]
             ELSE /\ login' = [login EXCEPT ![i] = Fail(@, "getMasterPrivateKeys")]
                  /\ UNCHANGED vkDecrypts
     ELSE /\ login' = [login EXCEPT ![i] = Fail(@, "getKeySets")]
          /\ UNCHANGED <<masterKeys, vkDecrypts>>
  /\ UNCHANGED <<cipherKey, cipherAuth, cipherSession, opSession, srvVerified, reader>>

\* ------------------------------------------------------------- entry ids
\* line 72: `${uuid}:${itemId}`
MkIdItemFirst(vaultUuid, itemId) == itemId \o <<":">> \o vaultUuid
MkId(vaultUuid, itemId) == vaultUuid \o <<":">> \o itemId

\* String.prototype.split(":"): the pieces between the colons
RECURSIVE Split(_)
Split(str) ==
  IF \A n \in 1..Len(str) : str[n] # ":" THEN <<str>>
  ELSE LET n == CHOOSE m \in 1..Len(str) : str[m] = ":" /\ \A j \in 1..(m - 1) : str[j] # ":"
       IN <<SubSeq(str, 1, n - 1)>> \o Split(SubSeq(str, n + 1, Len(str)))

\* line 96: const [vaultID, uuid] = id.split(":"); with no second piece
\* uuid is undefined, which names no item
NoUuid == <<>>
SplitId(id) ==
  LET parts == Split(id) IN
  [vaultID |-> parts[1], uuid |-> IF Len(parts) >= 2 THEN parts[2] ELSE NoUuid]

\* the ids of the items the account holds
IdOf(ref) == MkId(Vaults[ref[1]].uuid, Items[ref[1]][ref[2]].uuid)
EntryIds == {IdOf(ref) : ref \in ItemRefs}

\* ------------------------------------------------------ vault key lookup
\* line 58, `const [{ encVaultKey, encryptedBy }] = access`: the first
\* access entry of the vault
FirstAccess(access) == access[1]

\* lines 98-100, `{ access: [{ encVaultKey, encryptedBy }] }`: the first
\* access entry of the vault that was found
DetailLastAccess(access) == access[Len(access)]
DetailFirstAccess(access) == access[1]

\* lines 61 and 103, `this.masterKeys[encryptedBy]`: the property access
\* throws when masterKeys is still undefined
NoKeyStoreIgnored(mk) == FALSE
NoKeyStore(mk) == mk = Undefined

\* lines 59-62 and 101-104: masterKeys[encryptedBy], cipher.decipher.
\* keyArg is the key handed to decipher (Null: decipher was not called),
\* kid the key id of the access entry that was consulted.
Unwrap(a, mk) ==
  IF NoKeyStore(mk)
  THEN [err |-> "TypeError", keyArg |-> Null, k |-> Null, kid |-> a.encryptedBy]
  ELSE LET key == IF mk # Undefined /\ a.encryptedBy \in mk.kids
                  THEN [rsa |-> a.encryptedBy, by |-> mk.by, sess |-> mk.sess]
                  ELSE Undefined
           out == decipher(a.encVaultKey, key)
       IN IF out = DecipherError
          THEN [err |-> out.error, keyArg |-> key, k |-> Null, kid |-> a.encryptedBy]
          ELSE [err |-> "", keyArg |-> key, k |-> out.k, kid |-> a.encryptedBy]

NoAccess == [err |-> "TypeError", keyArg |-> Null, k |-> Null, kid |-> ""]

\* lines 58-62 (getEntries)
ResolveVaultKey(vault, mk) ==
  IF vault = Undefined THEN NoAccess
  ELSE IF Len(vault.access) = 0 THEN NoAccess
  ELSE Unwrap(FirstAccess(vault.access), mk)

\* lines 98-104 (getEntryDetails)
ResolveDetailVaultKey(vault, mk) ==
  IF vault = Undefined THEN NoAccess
  ELSE IF Len(vault.access) = 0 THEN NoAccess
  ELSE Unwrap(DetailFirstAccess(vault.access), mk)

\* ------------------------------------------------------------ getEntries
\* line 65
NotTrashedAll(i) == TRUE
NotTrashed(i) == i.trashed # "Y"

RECURSIVE Flatten(_)
Flatten(seqs) == IF seqs = <<>> THEN <<>> ELSE Head(seqs) \o Flatten(Tail(seqs))

ReaderMayStart(r) ==
  /\ reader[r].pc = "idle"
  /\ \A q \in Readers : q < r => reader[q].pc # "idle"
  /\ MayStart

\* line 56: call of onepassword.getVaults
GetEntries(r) ==
  /\ ReaderMayStart(r)
  /\ reader' = [reader EXCEPT ![r] = [@ EXCEPT !.kind = "getEntries", !.pc = "vaults"]]
  /\ UNCHANGED <<clientState, login, srvVerified, vkDecrypts>>

\* line 113, then lines 96-97: split of the id, call of getVaults
GetEntry(r, id) ==
  /\ ReaderMayStart(r)
  /\ reader' = [reader EXCEPT ![r] = [@ EXCEPT !.kind = "getEntry", !.pc = "vaults", !.id = id]]
  /\ UNCHANGED <<clientState, login, srvVerified, vkDecrypts>>

\* line 84, then lines 96-97
GetEntryCredentials(r, id) ==
  /\ ReaderMayStart(r)
  /\ reader' = [reader EXCEPT ![r] = [@ EXCEPT !.kind = "getEntryCredentials", !.pc = "vaults", !.id = id]]
  /\ UNCHANGED <<clientState, login, srvVerified, vkDecrypts>>

\* line 141
AddEntry(r) ==
  /\ ReaderMayStart(r)
  /\ reader' = [reader EXCEPT ![r] = [@ EXCEPT !.kind = "addEntry", !.pc = "done"]]
  /\ UNCHANGED <<clientState, login, srvVerified, vkDecrypts>>

Counted(res, v) == IF res.err = "" THEN vkDecrypts[v] + 1 ELSE vkDecrypts[v]

\* line 56 resumes; lines 57-64 run for every vault in turn, up to the call
\* of getItemsOverview; line 80 awaits the per-vault promises, and rejects
\* with the first of them that rejected.
VaultsReturn(r, ok) ==
  /\ reader[r].pc = "vaults" /\ reader[r].kind = "getEntries"
  /\ IF ok /\ SessionLive(opSession, srvVerified)
     THEN LET res == [v \in VaultIdx |-> ResolveVaultKey(Vaults[v], masterKeys)]
              sub == [v \in VaultIdx |->
                        IF res[v].err = ""
                        THEN [st |-> "fetching", vaultKey |-> B64Decode(res[v].k),
                              keyArg |-> res[v].keyArg, kid |-> res[v].kid, used |-> Null,
                              entries |-> <<>>, err |-> ""]
                        ELSE [st |-> "rejected", vaultKey |-> Null,
                              keyArg |-> res[v].keyArg, kid |-> res[v].kid, used |-> Null,
                              entries |-> <<>>, err |-> res[v].err]]
              rej == {v \in VaultIdx : sub[v].st = "rejected"}
          IN /\ reader' = [reader EXCEPT ![r] =
                  IF rej = {} THEN [@ EXCEPT !.pc = "joining", !.sub = sub]
                  ELSE [@ EXCEPT !.pc = "failed", !.sub = sub,
                                 !.err = sub[CHOOSE v \in rej : \A w \in rej : v <= w].err]]
             /\ vkDecrypts' = [v \in VaultIdx |-> Counted(res[v], v)]
     ELSE /\ reader' = [reader EXCEPT ![r] = [@ EXCEPT !.pc = "failed", !.err = "getVaults"]]
          /\ UNCHANGED vkDecrypts
  /\ UNCHANGED <<clientState, login, srvVerified>>

\* lines 66-78: the overview of every item that is left is deciphered with
\* the vault key; the map throws when a decipher throws.  used is the key
\* that was handed to decipher (Null: no item was left to decipher).
MapOverviews(vaultUuid, vaultKey, items) ==
  LET kept == SelectSeq(items, NotTrashed)
      plain == [n \in 1..Len(kept) |-> decipher(kept[n].encOverview, vaultKey)]
      used == IF Len(kept) > 0 THEN vaultKey ELSE Null
  IN IF \E n \in 1..Len(kept) : plain[n] = DecipherError
     THEN [err |-> DecipherError.error, entries |-> <<>>, used |-> used]
     ELSE [err |-> "", used |-> used,
           entries |-> [n \in 1..Len(kept) |->
                          [id |-> MkId(vaultUuid, kept[n].uuid), name |-> plain[n].title]]]

\* lines 63 and 69: vaultKey is a const of the callback of one vault, so
\* the callback that resumes for vault v reads the key it decoded itself
SharedVaultKey(sub, v) == sub[Len(sub)].vaultKey
OwnVaultKey(sub, v) == sub[v].vaultKey

\* line 80, `await Promise.all(entries)`: fulfilled when the promise of
\* every vault is fulfilled
AnyDone(sub) == \E w \in VaultIdx : sub[w].st = "done"
AllDone(sub) == \A w \in VaultIdx : sub[w].st = "done"

\* line 80, flatten(await Promise.all(entries)): Promise.all yields the
\* values in the order of the promises, that is of the vaults, whichever
\* vault was the last to settle
JoinedAsSettled(sub, last) ==
  Flatten([w \in 1..(Len(sub) - 1) |->
             sub[IF w < last THEN w ELSE w + 1].entries]) \o sub[last].entries
Joined(sub, last) == Flatten([w \in VaultIdx |-> sub[w].entries])

\* line 64 resumes for vault v: filter, map; the promise of the vault
\* settles, and with it line 80 when it rejects or was the last one.
OverviewReturn(r, v, ok, bad) ==
  /\ reader[r].kind = "getEntries" /\ reader[r].pc \in {"joining", "failed"}
  /\ reader[r].sub # <<>> /\ reader[r].sub[v].st = "fetching"
  /\ LET s == reader[r].sub[v]
         out == IF ok THEN MapOverviews(Vaults[v].uuid, OwnVaultKey(reader[r].sub, v),
                                        getItemsOverview(v, bad))
                ELSE [err |-> "getItemsOverview", entries |-> <<>>, used |-> Null]
         s2 == IF out.err # ""
               THEN [s EXCEPT !.st = "rejected", !.err = out.err, !.used = out.used]
               ELSE [s EXCEPT !.st = "done", !.entries = out.entries, !.used = out.used]
         sub == [reader[r].sub EXCEPT ![v] = s2]
     IN reader' = [reader EXCEPT ![r] =
          IF reader[r].pc = "failed" THEN [@ EXCEPT !.sub = sub, !.last = v]
          ELSE IF s2.st = "rejected"
               THEN [@ EXCEPT !.sub = sub, !.last = v, !.pc = "failed", !.err = s2.err]
          ELSE IF AllDone(sub)
               THEN [@ EXCEPT !.sub = sub, !.last = v, !.pc = "done", !.result = Joined(sub, v)]
          ELSE [@ EXCEPT !.sub = sub, !.last = v]]
  /\ UNCHANGED <<clientState, login, srvVerified, vkDecrypts>>

\* ------------------------------------------------------- getEntryDetails
\* lodash find(vaults, ["uuid", vaultID])
FindVault(vaultID) ==
  IF \E v \in VaultIdx : Vaults[v].uuid = vaultID
  THEN Vaults[CHOOSE v \in VaultIdx : Vaults[v].uuid = vaultID /\ \A w \in 1..(v - 1) : Vaults[w].uuid # vaultID]
  ELSE Undefined

VaultNo(vaultID) == CHOOSE v \in VaultIdx : Vaults[v].uuid = vaultID

\* line 97 resumes, lines 98-105: find, decipher of the vault key, call of
\* getItemDetail
DetailVaultsReturn(r, ok) ==
  /\ reader[r].pc = "vaults" /\ reader[r].kind \in {"getEntry", "getEntryCredentials"}
  /\ IF ok /\ SessionLive(opSession, srvVerified)
     THEN LET vaultID == SplitId(reader[r].id).vaultID
              res == ResolveDetailVaultKey(FindVault(vaultID), masterKeys)
          IN /\ reader' = [reader EXCEPT ![r] =
                  IF res.err = ""
                  THEN [@ EXCEPT !.pc = "detail", !.k = res.k, !.keyArg = res.keyArg, !.kid = res.kid]
                  ELSE [@ EXCEPT !.pc = "failed", !.err = res.err, !.keyArg = res.keyArg,
                                 !.kid = res.kid]]
             /\ vkDecrypts' = IF res.err = ""
                              THEN [vkDecrypts EXCEPT ![VaultNo(vaultID)] = @ + 1]
                              ELSE vkDecrypts
     ELSE /\ reader' = [reader EXCEPT ![r] = [@ EXCEPT !.pc = "failed", !.err = "getVaults"]]
          /\ UNCHANGED vkDecrypts
  /\ UNCHANGED <<clientState, login, srvVerified>>

\* line 105 resumes, lines 106-109: decipher of the details with the decoded
\* vault key; getEntry / getEntryCredentials map the record (lines 114, 85-92)
DetailReturn(r, ok, bad) ==
  /\ reader[r].pc = "detail"
  /\ LET parts == SplitId(reader[r].id)
         resp == IF ok THEN getItemDetail(parts.uuid, parts.vaultID, bad) ELSE Undefined
         out == IF resp = Undefined THEN Undefined
                ELSE decipher(resp.encDetails, B64Decode(reader[r].k))
     IN reader' = [reader EXCEPT ![r] =
          IF resp = Undefined THEN [@ EXCEPT !.pc = "failed", !.err = "getItemDetail", !.k = Null]
          ELSE IF out = DecipherError THEN [@ EXCEPT !.pc = "failed", !.err = out.error, !.k = Null]
          ELSE [@ EXCEPT !.pc = "done", !.result = <<out>>, !.k = Null]]
  /\ UNCHANGED <<clientState, login, srvVerified, vkDecrypts>>

\* ================================================================ claims
Failed(i) == login[i].pc = "failed"
FailedAt(i, step) == Failed(i) /\ login[i].failedAt = step
HoldsKeyOf(session, i) == session.id = i /\ session.key # Null

\* C1: after a login that failed in verifySessionKey, neither the cipher's
\* session nor the vault service's session holds the session key that
\* login computed.
C1_SessionKeyDiscarded ==
  \A i \in Logins : FailedAt(i, "verifySessionKey") =>
    ~HoldsKeyOf(cipherSession, i) /\ ~HoldsKeyOf(opSession, i)

\* C2: within a login, getKeySets and getMasterPrivateKeys run only after
\* verifySessionKey succeeded for the session that login installed; a login
\* whose verifySessionKey failed called neither and assigned no masterKeys.
C2_VerifiedBeforeDecryption ==
  \A i \in Logins :
    /\ (login[i].pc \in {"keysets", "done"}
        \/ FailedAt(i, "getKeySets") \/ FailedAt(i, "getMasterPrivateKeys"))
         => login[i].sid = i /\ i \in srvVerified
    /\ MkOwner(masterKeys) = i => i \in srvVerified
    /\ FailedAt(i, "verifySessionKey") => MkOwner(masterKeys) # i /\ login[i].enc = Undefined

\* C2 witness: one login was stopped by verifySessionKey and another went
\* on to store its master keys.
C2_Witness ==
  \E i, j \in Logins :
    /\ FailedAt(i, "verifySessionKey") /\ HoldsKeyOf(cipherSession, j)
    /\ login[j].pc = "done" /\ MkOwner(masterKeys) = j

\* C3: a login that failed, at whatever step, leaves no account key,
\* no session and no master keys of that attempt in the client.
C3_NoPartialSession ==
  \A i \in Logins : Failed(i) =>
    /\ cipherKey # i
    /\ cipherSession.id # i /\ opSession.id # i
    /\ MkOwner(masterKeys) # i

\* C4: a login whose exchange returned a degenerate bigB (zero or absent)
\* ends at the exchange: it installs no session and computes and sends no
\* verify hashes, and no session is ever installed with a null key.
C4_DegenerateBigBRejected ==
  /\ \A i \in Logins :
       login[i].bigB # "valid" =>
         /\ login[i].pc \notin {"sessionKey", "verify", "keysets", "done"}
         /\ Failed(i) => login[i].failedAt \in {"getKey", "auth", "SRPExchange"}
  /\ cipherSession.id # 0 => cipherSession.key # Null
  /\ opSession.id # 0 => opSession.key # Null

\* The master key store of an earlier, completed login is still in place
\* while a later login is under way or after it failed.
StaleStore ==
  \E j \in Logins :
    /\ login[j].pc \notin {"idle", "done"}
    /\ login[j].mkAtStart # 0
    /\ MkOwner(masterKeys) = login[j].mkAtStart

ResolvedVaultKey(rd) ==
  \/ rd.pc = "detail"
  \/ rd.kind = "getEntries" /\ rd.sub # <<>> /\ \E v \in VaultIdx : rd.sub[v].st = "fetching"

\* C5: from the start of a second login until it succeeds, and after it
\* fails, no getEntries / getEntry / getEntryCredentials deciphers a vault
\* key with the master keys of the earlier login.
C5_PreviousStoreTornDown ==
  [][\A r \in Readers :
       (reader[r].pc = "vaults" /\ ResolvedVaultKey(reader'[r])) => ~StaleStore]_vars

\* C6: the master keys a login stores were unwrapped under the session that
\* same login installed and verified, and every installed session key was
\* derived from the auth parameters of the login that installed it.
C6_LoginsIsolated ==
  /\ masterKeys # Undefined => masterKeys.sess = masterKeys.by
  /\ cipherSession.key # Null => cipherSession.key.owner = cipherSession.id
  /\ \A i \in Logins : login[i].pc = "verify" => login[i].hash.server.sid = i

\* C7: within one session the key of a vault is deciphered at most once,
\* however many getEntries / getEntry / getEntryCredentials resolve it.
C7_VaultKeyDecipheredOnce == \A v \in VaultIdx : vkDecrypts[v] <= 1

ItemFailure(s) == s.st = "rejected" /\ s.vaultKey # Null /\ s.err = DecipherError.error

\* C8: a getEntries in which the only failures are overview envelopes that
\* did not decipher does not fail as a whole.
C8_ItemFailureIsolated ==
  \A r \in Readers :
    (/\ reader[r].kind = "getEntries" /\ reader[r].sub # <<>>
     /\ \A v \in VaultIdx : reader[r].sub[v].st = "done" \/ ItemFailure(reader[r].sub[v])
     /\ \E v \in VaultIdx : ItemFailure(reader[r].sub[v]))
      => reader[r].pc # "failed"

MissingKey(s) == s.st = "rejected" /\ s.keyArg = Undefined

\* C9: a vault whose first access entry names a key id that the master key
\* store lacks fails with UnknownKeyIdError before decipher is called with
\* the missing key, and in getEntries the failure stays with that vault.
C9_UnknownKeyIdConfined ==
  \A r \in Readers :
    /\ reader[r].keyArg # Undefined
    /\ (reader[r].kind = "getEntries" /\ reader[r].sub # <<>>) =>
         /\ \A v \in VaultIdx : reader[r].sub[v].keyArg # Undefined
         /\ (\A v \in VaultIdx : reader[r].sub[v].st \in {"done", "fetching"}
                                  \/ MissingKey(reader[r].sub[v]))
              => reader[r].pc # "failed"

TrashedIds == {IdOf(ref) : ref \in {x \in ItemRefs : Items[x[1]][x[2]].trashed = "Y"}}
Listed == EntryIds \ TrashedIds

\* C10: a getEntries that returns lists exactly the items that are not
\* trashed, each once; a getEntry / getEntryCredentials that returns has the
\* deciphered details of the item it was addressed with, trashed or not.
C10_TrashedExcludedButRetrievable ==
  \A r \in Readers :
    /\ (reader[r].kind = "getEntries" /\ reader[r].pc = "done") =>
         /\ {reader[r].result[n].id : n \in 1..Len(reader[r].result)} = Listed
         /\ Len(reader[r].result) = Cardinality(Listed)
    /\ (reader[r].kind \in {"getEntry", "getEntryCredentials"} /\ reader[r].pc = "done") =>
         /\ Len(reader[r].result) = 1
         /\ MkId(reader[r].result[1].vault, reader[r].result[1].item) = reader[r].id

\* C10 witness: a listing has returned, and a trashed item was fetched and
\* deciphered by its id.
C10_Witness ==
  \E r, q \in Readers :
    /\ reader[r].kind = "getEntries" /\ reader[r].pc = "done"
    /\ reader[q].kind \in {"getEntry", "getEntryCredentials"} /\ reader[q].pc = "done"
    /\ reader[q].id \in TrashedIds

\* C11: once a login has ended, with success or with failure, the cipher no
\* longer holds the password and the ephemeral private value littleA that
\* login handed over with setAuth.
C11_CredentialsNotRetained ==
  \A i \in Logins : login[i].pc \in {"done", "failed"} => cipherAuth.owner # i

\* The steps of login in the order of lines 39-52, as the position a login
\* is at while the step's call is outstanding.
StepOrder == <<"idle", "auth", "genSRP", "exchange", "sessionKey", "verify", "keysets", "done">>

NextStep(pc) == {StepOrder[n + 1] : n \in {m \in 1..(Len(StepOrder) - 1) : StepOrder[m] = pc}}

\* C12: a login moves from each step only to the step that follows it in
\* the fixed order, once that step's call has returned, or to failure; it
\* never repeats, skips or resumes a step, and a failed or finished login
\* takes no further step.
C12_FixedStepOrder ==
  [][\A i \in Logins :
       login'[i].pc # login[i].pc =>
         /\ login[i].pc \notin {"done", "failed"}
         /\ login'[i].pc \in NextStep(login[i].pc) \cup {"failed"}]_vars

DetailReader(rd) == rd.kind \in {"getEntry", "getEntryCredentials"}
FirstKid(v) == Vaults[v].access[1].encryptedBy

\* C13: the listing path and the detail path both consult the first access
\* entry of a vault and no other, also when the master key store lacks its
\* key and holds the key of a further entry; for the same vault they
\* consult the same entry, and under the same master key store they
\* resolve the same vault key.
C13_FirstAccessEntryOnly ==
  \A r \in Readers :
    /\ (reader[r].kind = "getEntries" /\ reader[r].sub # <<>>) =>
         \A v \in VaultIdx :
           LET s == reader[r].sub[v] IN
           /\ s.kid = FirstKid(v)
           /\ s.keyArg \notin {Null, Undefined} => s.keyArg.rsa = FirstKid(v)
           /\ s.keyArg = Undefined => s.st = "rejected"
           /\ \A q \in Readers :
                (/\ DetailReader(reader[q]) /\ reader[q].kid # ""
                 /\ SplitId(reader[q].id).vaultID = Vaults[v].uuid) =>
                  /\ reader[q].kid = s.kid
                  /\ (reader[q].pc = "detail" /\ s.st = "fetching") =>
                        B64Decode(reader[q].k) = s.vaultKey
    /\ (DetailReader(reader[r]) /\ reader[r].kid # "") =>
         LET v == VaultNo(SplitId(reader[r].id).vaultID) IN
         /\ reader[r].kid = FirstKid(v)
         /\ reader[r].keyArg \notin {Null, Undefined} => reader[r].keyArg.rsa = FirstKid(v)
         /\ reader[r].keyArg = Undefined => reader[r].pc = "failed"

\* C13 witness: a vault with two access entries has its key resolved by a
\* listing and by a detail request at the same time.
C13_Witness ==
  \E r, q \in Readers :
    /\ reader[r].kind = "getEntries" /\ reader[r].sub # <<>>
    /\ \E v \in VaultIdx :
         /\ Len(Vaults[v].access) > 1
         /\ reader[r].sub[v].st = "fetching"
         /\ DetailReader(reader[q]) /\ reader[q].pc = "detail"
         /\ SplitId(reader[q].id).vaultID = Vaults[v].uuid

\* C14: masterKeys changes only in the step in which a login completes its
\* last step, and then to the keys of that login; a step in which a login
\* fails, and every step of getEntries, getEntry, getEntryCredentials and
\* addEntry, whatever its outcome, leaves masterKeys and the installed
\* sessions as they were.
C14_MasterKeysWrittenOnlyByCompletedLogin ==
  [][/\ masterKeys' # masterKeys =>
          \E i \in Logins : /\ login[i].pc = "keysets" /\ login'[i].pc = "done"
                            /\ MkOwner(masterKeys') = i
     /\ (\E i \in Logins : login[i].pc # "failed" /\ login'[i].pc = "failed") =>
          masterKeys' = masterKeys
     /\ reader' # reader =>
          /\ masterKeys' = masterKeys
          /\ cipherSession' = cipherSession /\ opSession' = opSession]_vars

\* C14 witness: with the master keys of a completed login in place, another
\* login has failed at the unwrapping of its key sets, and a listing or
\* detail request has failed.
C14_Witness ==
  \E i, j \in Logins : \E r \in Readers :
    /\ login[i].pc = "done" /\ MkOwner(masterKeys) = i
    /\ FailedAt(j, "getMasterPrivateKeys")
    /\ reader[r].pc = "failed" /\ reader[r].kind # "addEntry"

\* C15: in getEntries the overviews fetched for a vault are deciphered with
\* the key resolved from that same vault, and every entry made from them
\* carries the uuid of that vault and the item it was deciphered from, in
\* whatever order the overview fetches of the vaults return.
C15_ItemsPairedWithOwnVault ==
  \A r \in Readers :
    (reader[r].kind = "getEntries" /\ reader[r].sub # <<>>) =>
      \A v \in VaultIdx :
        LET s == reader[r].sub[v] IN
        /\ s.st \in {"fetching", "done"} => s.vaultKey = VaultKey(Vaults[v].uuid)
        /\ s.used # Null => s.used = VaultKey(Vaults[v].uuid)
        /\ \A n \in 1..Len(s.entries) :
             \E m \in 1..Len(Items[v]) :
               /\ s.entries[n].id = MkId(Vaults[v].uuid, Items[v][m].uuid)
               /\ s.entries[n].name = Items[v][m].uuid

\* C15 witness: the overviews of a later vault have been deciphered and
\* mapped while the fetch of an earlier vault is still outstanding.
C15_Witness ==
  \E r \in Readers : \E v, w \in VaultIdx :
    /\ reader[r].kind = "getEntries" /\ reader[r].pc = "joining"
    /\ v < w
    /\ reader[r].sub[v].st = "fetching"
    /\ reader[r].sub[w].st = "done" /\ reader[r].sub[w].used # Null
    /\ Len(reader[r].sub[w].entries) > 0

Listing(rd) == rd.kind = "getEntries"

\* C16: when getVaults has returned, getEntries has the overview fetch of
\* every vault whose key resolved outstanding at once; it returns a result
\* only when the fetch and the decryption of every vault have finished; and
\* if every call to the vault service returns, every getEntries ends, with
\* a result or with an error.
C16_JoinsWhenAllComplete ==
  /\ [][\A r \in Readers :
          (Listing(reader[r]) /\ reader[r].pc = "vaults" /\ reader'[r].sub # <<>>) =>
            \A v \in VaultIdx :
              \/ reader'[r].sub[v].st = "fetching"
              \/ reader'[r].sub[v].st = "rejected" /\ reader'[r].sub[v].vaultKey = Null]_vars
  /\ [](\A r \in Readers :
          (Listing(reader[r]) /\ reader[r].pc = "done") =>
            /\ \A v \in VaultIdx : reader[r].sub[v].st = "done"
            /\ Len(reader[r].result) = Len(Flatten([v \in VaultIdx |-> reader[r].sub[v].entries])))
  /\ \A r \in Readers :
       (Listing(reader[r]) /\ reader[r].pc \in {"vaults", "joining"})
         ~> (reader[r].pc \in {"done", "failed"})

\* C16 witness: a getEntries has returned the entries of two vaults, every
\* vault's fetch and decryption done.
C16_Witness ==
  \E r \in Readers :
    /\ Listing(reader[r]) /\ reader[r].pc = "done"
    /\ \A v \in VaultIdx : reader[r].sub[v].st = "done"
    /\ Len(reader[r].result) > 1

\* the items of vault v that are not trashed, in the order of the vault
KeptRefs(v) ==
  SelectSeq([n \in 1..Len(Items[v]) |-> <<v, n>>],
            LAMBDA ref : Items[ref[1]][ref[2]].trashed # "Y")

\* the ids of the listing: vault by vault in the order of getVaults, within
\* a vault in the order of getItemsOverview
ListingOrder ==
  Flatten([v \in VaultIdx |-> [n \in 1..Len(KeptRefs(v)) |-> IdOf(KeptRefs(v)[n])]])

\* C17: the entries a getEntries returns are in the order of the vaults of
\* getVaults and, within a vault, of its non-trashed items, whichever
\* vault's overview fetch returned last.
C17_OrderIndependentOfCompletion ==
  \A r \in Readers :
    (Listing(reader[r]) /\ reader[r].pc = "done") =>
      [k \in 1..Len(reader[r].result) |-> reader[r].result[k].id] = ListingOrder

\* C17 witness: a getEntries has returned whose first vault was the last to
\* have its overviews fetched, with two entries of that vault in the result.
C17_Witness ==
  \E r \in Readers :
    /\ Listing(reader[r]) /\ reader[r].pc = "done"
    /\ reader[r].last = 1
    /\ Len(reader[r].sub[1].entries) > 1 /\ Len(reader[r].sub[2].entries) > 0

\* some login has completed: its verifySessionKey succeeded and its master
\* keys were stored
LoginCompleted ==
  /\ masterKeys # Undefined
  /\ \E i \in Logins : login[i].pc = "done" /\ i \in srvVerified

\* the vault-key decipher has been called for the request
AttemptedVaultKey(rd) ==
  \/ rd.keyArg # Null
  \/ rd.sub # <<>> /\ \E v \in VaultIdx : rd.sub[v].keyArg # Null

\* C18: a getEntries, getEntry or getEntryCredentials has got past its
\* vault-key resolution, or has returned data, only if some login has
\* completed before; until then the request fails and cipher.decipher is
\* not called for any vault key.
C18_NoDataBeforeLogin ==
  \A r \in Readers :
    (Listing(reader[r]) \/ DetailReader(reader[r])) =>
      /\ reader[r].pc \in {"joining", "detail", "done"} => LoginCompleted
      /\ AttemptedVaultKey(reader[r]) => LoginCompleted
      /\ Len(reader[r].result) > 0 => LoginCompleted

\* C18 witness: under a session the server has verified, but before any
\* login has stored master keys, a request reached the vault-key lookup
\* and failed there without a call of decipher.
C18_Witness ==
  \E r \in Readers :
    /\ ~LoginCompleted
    /\ reader[r].pc = "failed" /\ reader[r].err = "TypeError"
    /\ \/ reader[r].kid # ""
       \/ reader[r].sub # <<>> /\ \E v \in VaultIdx : reader[r].sub[v].kid # ""
    /\ ~AttemptedVaultKey(reader[r])

NoColon(str) == \A n \in 1..Len(str) : str[n] # ":"

\* the items behind the entries of a listing, in the order of the listing
ListingRefs == Flatten([v \in VaultIdx |-> KeptRefs(v)])

\* the vault uuid and item uuid that getEntryDetails addresses when it is
\* given the id of the k-th entry of the listing a getEntries returned, and,
\* when a getEntry / getEntryCredentials with that id has returned, the
\* item it returned, are those of the item behind that entry
RoundTrips(rd, k) ==
  LET ref == ListingRefs[k]
      vaultUuid == Vaults[ref[1]].uuid
      itemUuid == Items[ref[1]][ref[2]].uuid
  IN /\ SplitId(rd.result[k].id) = [vaultID |-> vaultUuid, uuid |-> itemUuid]
     /\ \A q \in Readers :
          (DetailReader(reader[q]) /\ reader[q].id = rd.result[k].id /\ reader[q].pc = "done") =>
            reader[q].result[1] = [item |-> itemUuid, vault |-> vaultUuid]

\* C19 as stated: the id of every entry a getEntries returns, whose vault
\* uuid contains no colon, addresses in getEntry / getEntryCredentials the
\* vault uuid and the item uuid that produced the entry.
C19_IdsRoundTrip ==
  \A r \in Readers :
    (Listing(reader[r]) /\ reader[r].pc = "done") =>
      \A k \in 1..Len(reader[r].result) :
        NoColon(Vaults[ListingRefs[k][1]].uuid) => RoundTrips(reader[r], k)

\* C19 amended: the id of every entry a getEntries returns addresses in
\* getEntry / getEntryCredentials the vault uuid and the item uuid that
\* produced the entry, provided neither the vault uuid nor the item uuid
\* contains a colon.
C19_IdsRoundTripColonFree ==
  \A r \in Readers :
    (Listing(reader[r]) /\ reader[r].pc = "done") =>
      \A k \in 1..Len(reader[r].result) :
        (/\ NoColon(Vaults[ListingRefs[k][1]].uuid)
         /\ NoColon(Items[ListingRefs[k][1]][ListingRefs[k][2]].uuid))
          => RoundTrips(reader[r], k)

\* C19 witness: a getEntries has returned, and a getEntry or
\* getEntryCredentials given the id of one of its entries has returned the
\* details of an item.
C19_Witness ==
  \E r, q \in Readers :
    /\ Listing(reader[r]) /\ reader[r].pc = "done"
    /\ DetailReader(reader[q]) /\ reader[q].pc = "done"
    /\ \E k \in 1..Len(reader[r].result) :
         /\ reader[q].id = reader[r].result[k].id
         /\ NoColon(Items[ListingRefs[k][1]][ListingRefs[k][2]].uuid)

Next ==
  \/ \E i \in Logins, pwOk \in BOOLEAN, secretOk \in BOOLEAN : LoginStart(i, pwOk, secretOk)
  \/ \E i \in Logins, ok \in BOOLEAN : AuthReturn(i, ok)
  \/ \E i \in Logins : SRPKeysReturn(i)
  \/ \E i \in Logins, ok \in BOOLEAN, bigB \in BigBValues : ExchangeReturn(i, ok, bigB)
  \/ \E i \in Logins, ok \in BOOLEAN : SessionKeyReturn(i, ok)
  \/ \E i \in Logins, ok \in BOOLEAN, kids \in KeySetChoices : VerifyReturn(i, ok, kids)
  \/ \E i \in Logins, ok \in BOOLEAN : KeySetsReturn(i, ok)
  \/ \E r \in Readers : GetEntries(r)
  \/ \E r \in Readers, id \in EntryIds : GetEntry(r, id)
  \/ \E r \in Readers, id \in EntryIds : GetEntryCredentials(r, id)
  \/ \E r \in Readers : AddEntry(r)
  \/ \E r \in Readers, ok \in BOOLEAN : VaultsReturn(r, ok)
  \/ \E r \in Readers, v \in VaultIdx, ok \in BOOLEAN, bad \in SUBSET ItemUuids :
       OverviewReturn(r, v, ok, bad)
  \/ \E r \in Readers, ok \in BOOLEAN : DetailVaultsReturn(r, ok)
  \/ \E r \in Readers, ok \in BOOLEAN, bad \in BOOLEAN : DetailReturn(r, ok, bad)

Spec == Init /\ [][Next]_vars

\* Every call getEntries has made to the vault service returns: the
\* continuation of an outstanding getVaults or getItemsOverview is run.
GetEntriesReturns(r) ==
  \/ \E ok \in BOOLEAN : VaultsReturn(r, ok)
  \/ \E v \in VaultIdx, ok \in BOOLEAN, bad \in SUBSET ItemUuids : OverviewReturn(r, v, ok, bad)

FairSpec == Init /\ [][Next]_vars /\ \A r \in Readers : WF_vars(GetEntriesReturns(r))
====
